---- MODULE Spec2Model ----
(***************************************************************************)
(* Model of nfa_to_dfa_visualizer.py: the NFA and DFA classes, the subset  *)
(* construction thompson_algorithm_visual and the two word simulations.    *)
(***************************************************************************)
EXTENDS Integers, Sequences, FiniteSets, TLC

VARIABLES nfa, order, pc, queue, processed, dfa_transitions, dfa_states,
          step_count, current_state, step_info, steps, sym_i, dfa,
          word, nfa_result, dfa_result, closure_in, closure_out

vars == <<nfa, order, pc, queue, processed, dfa_transitions, dfa_states,
          step_count, current_state, step_info, steps, sym_i, dfa,
          word, nfa_result, dfa_result, closure_in, closure_out>>

----------------------------------------------------------------------------
(* Bounds of the model. *)

\* the largest number of transition edges of a generated NFA
MaxEdges == 2

\* the longest word handed to the simulations of a generated NFA
MaxWordLen == 2

\* the longest word handed to the simulations of the canonical NFA
CanonWordLen == 4

----------------------------------------------------------------------------
(* Input domains. *)

\* the epsilon sentinel: the empty string keys the epsilon-transitions
Epsilon == ""

\* the alphabet of every automaton of the model
Alphabet == {"a", "b"}

\* the characters a word may hold: the alphabet and one character outside it
Chars == Alphabet \cup {"c"}

\* the states of a generated NFA
NFAStates == {1, 2, 3}

\* every edge <<from, symbol-or-epsilon, to>> a generated NFA may have
AllEdges == NFAStates \X (Alphabet \cup {Epsilon}) \X NFAStates

RECURSIVE EdgeSets(_)
\* the sets of at most k edges
EdgeSets(k) ==
    IF k = 0 THEN {{}}
    ELSE LET P == EdgeSets(k - 1)
         IN  P \cup {T \cup {e} : T \in P, e \in AllEdges}

\* the generated NFAs: they satisfy the data-model invariants; state names are
\* interchangeable, so the start state is the first one
SmallNFAs ==
    [states : {NFAStates}, alphabet : {Alphabet},
     transitions : EdgeSets(MaxEdges),
     start : {CHOOSE s \in NFAStates : \A t \in NFAStates : s <= t},
     final : SUBSET NFAStates]

\* the NFA that main() builds
CanonicalNFA ==
    [states |-> {1, 2, 3, 4}, alphabet |-> Alphabet,
     transitions |-> {<<1, "a", 1>>, <<1, "a", 2>>, <<1, "b", 1>>,
                      <<2, "a", 3>>, <<2, "b", 3>>,
                      <<3, "a", 4>>, <<3, "b", 4>>},
     start |-> 1, final |-> {4}]

\* the words of at most n characters
Words(n) == UNION {[1..k -> Chars] : k \in 0..n}

\* the enumeration orders a set of symbols can be iterated in
Orders(S) == {o \in [1..Cardinality(S) -> S] : \A x \in S : \E i \in DOMAIN o : o[i] = x}

RECURSIVE SortedSeq(_)
\* a set of integers as the list Python iterates it in (ascending for small ints)
SortedSeq(S) ==
    IF S = {} THEN <<>>
    ELSE LET m == CHOOSE x \in S : \A y \in S : x <= y
         IN  <<m>> \o SortedSeq(S \ {m})

----------------------------------------------------------------------------
(* class NFA *)

\* NFA.delta
delta(n, state, symbol) ==
    {e[3] : e \in {t \in n.transitions : t[1] = state /\ t[2] = symbol}}

RECURSIVE closure_loop_no_push(_, _, _)
\* closure_loop with next_state added to the closure but not pushed on the stack
closure_loop_no_push(n, closure, stack) ==
    IF stack = <<>> THEN closure
    ELSE LET state == stack[Len(stack)]
             rest  == SubSeq(stack, 1, Len(stack) - 1)
             new   == delta(n, state, Epsilon) \ closure
         IN  closure_loop_no_push(n, closure \cup new, rest)

\* closure_loop with an if in place of the while: one pop only
closure_loop_once(n, closure, stack) ==
    IF stack = <<>> THEN closure
    ELSE closure \cup delta(n, stack[Len(stack)], Epsilon)

RECURSIVE closure_loop(_, _, _)
\* the while loop of NFA.epsilon_closure
closure_loop(n, closure, stack) ==
    IF stack = <<>> THEN closure
    ELSE LET state == stack[Len(stack)]
             rest  == SubSeq(stack, 1, Len(stack) - 1)
             new   == delta(n, state, Epsilon) \ closure
         IN  closure_loop(n, closure \cup new, rest \o SortedSeq(new))

\* NFA.epsilon_closure
epsilon_closure(n, states) == closure_loop(n, states, SortedSeq(states))

\* NFA.move
move(n, states, symbol) == UNION {delta(n, state, symbol) : state \in states}

RECURSIVE nfa_accepts_loop_no_closure(_, _, _, _)
\* nfa_accepts_loop without the epsilon-closure after move
nfa_accepts_loop_no_closure(n, current_states, w, i) ==
    IF i > Len(w) THEN (current_states \cap n.final) # {}
    ELSE IF w[i] \notin n.alphabet THEN FALSE
    ELSE LET cs == move(n, current_states, w[i])
         IN  IF cs = {} THEN FALSE
             ELSE nfa_accepts_loop_no_closure(n, cs, w, i + 1)

RECURSIVE nfa_accepts_loop_any_state(_, _, _, _)
\* nfa_accepts_loop returning bool(current_states) at the end of the word
nfa_accepts_loop_any_state(n, current_states, w, i) ==
    IF i > Len(w) THEN current_states # {}
    ELSE IF w[i] \notin n.alphabet THEN FALSE
    ELSE LET next_states == move(n, current_states, w[i])
             cs == epsilon_closure(n, next_states)
         IN  IF cs = {} THEN FALSE
             ELSE nfa_accepts_loop_any_state(n, cs, w, i + 1)

RECURSIVE nfa_accepts_loop_skip(_, _, _, _)
\* nfa_accepts_loop skipping a character outside the alphabet (continue)
nfa_accepts_loop_skip(n, current_states, w, i) ==
    IF i > Len(w) THEN (current_states \cap n.final) # {}
    ELSE IF w[i] \notin n.alphabet
         THEN nfa_accepts_loop_skip(n, current_states, w, i + 1)
    ELSE LET next_states == move(n, current_states, w[i])
             cs == epsilon_closure(n, next_states)
         IN  IF cs = {} THEN FALSE
             ELSE nfa_accepts_loop_skip(n, cs, w, i + 1)

RECURSIVE nfa_accepts_loop(_, _, _, _)
\* the for loop of NFA.accepts, at character i of w
nfa_accepts_loop(n, current_states, w, i) ==
    IF i > Len(w) THEN (current_states \cap n.final) # {}
    ELSE IF w[i] \notin n.alphabet THEN FALSE
    ELSE LET next_states == move(n, current_states, w[i])
             cs == epsilon_closure(n, next_states)
         IN  IF cs = {} THEN FALSE
             ELSE nfa_accepts_loop(n, cs, w, i + 1)

\* NFA.accepts
NFA_accepts(n, w) == nfa_accepts_loop(n, epsilon_closure(n, {n.start}), w, 1)

----------------------------------------------------------------------------
(* class DFA *)

RECURSIVE dfa_accepts_loop_dead(_, _, _, _, _)
\* dfa_accepts_loop appending an empty dead state where no transition is defined
dfa_accepts_loop_dead(d, state, trace, w, i) ==
    IF i > Len(w) THEN <<state \in d.final, trace>>
    ELSE IF w[i] \notin d.alphabet THEN <<FALSE, trace>>
    ELSE IF state \notin DOMAIN d.transitions
            \/ w[i] \notin DOMAIN d.transitions[state]
         THEN <<FALSE, Append(trace, {})>>
    ELSE LET s2 == d.transitions[state][w[i]]
         IN  dfa_accepts_loop_dead(d, s2, Append(trace, s2), w, i + 1)

RECURSIVE dfa_accepts_loop_states(_, _, _, _, _)
\* dfa_accepts_loop returning 'state in self.states' at the end of the word
dfa_accepts_loop_states(d, state, trace, w, i) ==
    IF i > Len(w) THEN <<state \in d.states, trace>>
    ELSE IF w[i] \notin d.alphabet THEN <<FALSE, trace>>
    ELSE IF state \notin DOMAIN d.transitions
            \/ w[i] \notin DOMAIN d.transitions[state] THEN <<FALSE, trace>>
    ELSE LET s2 == d.transitions[state][w[i]]
         IN  dfa_accepts_loop_states(d, s2, Append(trace, s2), w, i + 1)

RECURSIVE dfa_accepts_loop(_, _, _, _, _)
\* the for loop of DFA.accepts, at character i of w
dfa_accepts_loop(d, state, trace, w, i) ==
    IF i > Len(w) THEN <<state \in d.final, trace>>
    ELSE IF w[i] \notin d.alphabet THEN <<FALSE, trace>>
    ELSE IF state \notin DOMAIN d.transitions
            \/ w[i] \notin DOMAIN d.transitions[state] THEN <<FALSE, trace>>
    ELSE LET s2 == d.transitions[state][w[i]]
         IN  dfa_accepts_loop(d, s2, Append(trace, s2), w, i + 1)

\* DFA.accepts
DFA_accepts(d, w) == dfa_accepts_loop(d, d.start, <<d.start>>, w, 1)

----------------------------------------------------------------------------
(* thompson_algorithm_visual *)

\* the empty dict
EmptyDict == [x \in {} |-> {}]

\* d[k] = v on a dict that is created anew by the assignment
DictSet_reset(d, k, v) == [x \in {k} |-> v]

\* d[k] = v on a dict
DictSet(d, k, v) == [x \in DOMAIN d \cup {k} |-> IF x = k THEN v ELSE d[x]]

\* the value of a variable that is not yet bound
None == "None"

\* start_dfa: the start state of the DFA
start_dfa(n) == {n.start}

\* Setup with dfa_states created empty (dfa_states = set())
Setup_no_start(n) ==
    /\ nfa = n
    /\ order \in Orders(n.alphabet)
    /\ pc = "loop"
    /\ queue = <<start_dfa(n)>>
    /\ processed = {start_dfa(n)}
    /\ dfa_transitions = EmptyDict
    /\ dfa_states = {}
    /\ step_count = 0
    /\ current_state = None
    /\ step_info = None
    /\ steps = <<>>
    /\ sym_i = 0
    /\ dfa = None
    /\ word = None
    /\ nfa_result = None
    /\ dfa_result = None
    /\ closure_in = None
    /\ closure_out = None

\* the state when the while loop is first reached
Setup(n) ==
    /\ nfa = n
    /\ order \in Orders(n.alphabet)
    /\ pc = "loop"
    /\ queue = <<start_dfa(n)>>
    /\ processed = {start_dfa(n)}
    /\ dfa_transitions = EmptyDict
    /\ dfa_states = {start_dfa(n)}
    /\ step_count = 0
    /\ current_state = None
    /\ step_info = None
    /\ steps = <<>>
    /\ sym_i = 0
    /\ dfa = None
    /\ word = None
    /\ nfa_result = None
    /\ dfa_result = None
    /\ closure_in = None
    /\ closure_out = None

Init == \E n \in SmallNFAs : Setup(n)

InitCanon == Setup(CanonicalNFA)

\* Dequeue with the queue snapshot taken before popleft()
Dequeue_snapshot_before ==
    /\ pc = "loop"
    /\ queue # <<>>
    /\ step_count' = step_count + 1
    /\ current_state' = Head(queue)
    /\ queue' = Tail(queue)
    /\ step_info' = [step |-> step_count + 1,
                     current_state |-> Head(queue),
                     queue |-> queue,
                     processed |-> processed,
                     transitions |-> EmptyDict]
    /\ dfa_transitions' = DictSet(dfa_transitions, Head(queue), EmptyDict)
    /\ sym_i' = 1
    /\ pc' = "symbols"
    /\ UNCHANGED <<nfa, order, processed, dfa_states, steps, dfa,
                   word, nfa_result, dfa_result, closure_in, closure_out>>

\* Dequeue with pop() in place of popleft(): last in, first out
Dequeue_lifo ==
    /\ pc = "loop"
    /\ queue # <<>>
    /\ step_count' = step_count + 1
    /\ current_state' = queue[Len(queue)]
    /\ queue' = SubSeq(queue, 1, Len(queue) - 1)
    /\ step_info' = [step |-> step_count + 1,
                     current_state |-> queue[Len(queue)],
                     queue |-> SubSeq(queue, 1, Len(queue) - 1),
                     processed |-> processed,
                     transitions |-> EmptyDict]
    /\ dfa_transitions' = DictSet(dfa_transitions, queue[Len(queue)], EmptyDict)
    /\ sym_i' = 1
    /\ pc' = "symbols"
    /\ UNCHANGED <<nfa, order, processed, dfa_states, steps, dfa,
                   word, nfa_result, dfa_result, closure_in, closure_out>>

\* one dequeue: the head of the while loop body
Dequeue ==
    /\ pc = "loop"
    /\ queue # <<>>
    /\ step_count' = step_count + 1
    /\ current_state' = Head(queue)
    /\ queue' = Tail(queue)
    /\ step_info' = [step |-> step_count + 1,
                     current_state |-> Head(queue),
                     queue |-> Tail(queue),
                     processed |-> processed,
                     transitions |-> EmptyDict]
    /\ dfa_transitions' = DictSet(dfa_transitions, Head(queue), EmptyDict)
    /\ sym_i' = 1
    /\ pc' = "symbols"
    /\ UNCHANGED <<nfa, order, processed, dfa_states, steps, dfa,
                   word, nfa_result, dfa_result, closure_in, closure_out>>

\* next_state_of with an assignment in place of update(): the destinations of
\* the state iterated last
next_state_of_overwrite(n, cur, symbol) ==
    IF cur = <<>> THEN {} ELSE delta(n, cur[Len(cur)], symbol)

RECURSIVE next_state_of(_, _, _)
\* the destination of current_state on a symbol: next_state after the loop
\* 'for state in current_state', cur being current_state in the order the
\* frozenset is iterated in
next_state_of(n, cur, symbol) ==
    IF cur = <<>> THEN {}
    ELSE next_state_of(n, SubSeq(cur, 1, Len(cur) - 1), symbol)
            \cup delta(n, cur[Len(cur)], symbol)

\* is_new_state without the test against processed
is_new_state_no_check(next_state, proc) == next_state # {}

\* is_new_state without the test for the empty subset
is_new_state_allow_empty(next_state, proc) == next_state \notin proc

\* the test that decides whether a destination is enqueued
is_new_state(next_state, proc) == next_state \notin proc /\ next_state # {}

\* one iteration of the for loop over the alphabet; the last one appends the
\* step record
\* iter is current_state in the order the frozenset is iterated in
ExpandWith(iter) ==
    /\ pc = "symbols"
    /\ LET symbol == order[sym_i]
           next_state == next_state_of(nfa, iter, symbol)
           fresh == is_new_state(next_state, processed)
           info == [step_info EXCEPT !.transitions =
                       DictSet(@, symbol,
                               [from_state |-> current_state,
                                to_state |-> next_state,
                                is_new |-> next_state \notin processed /\ next_state # {},
                                is_empty |-> next_state = {}])]
       IN  /\ dfa_transitions' =
                 DictSet(dfa_transitions, current_state,
                         DictSet(dfa_transitions[current_state], symbol, next_state))
           /\ step_info' = info
           /\ IF fresh
              THEN /\ queue' = Append(queue, next_state)
                   /\ processed' = processed \cup {next_state}
                   /\ dfa_states' = dfa_states \cup {next_state}
              ELSE UNCHANGED <<queue, processed, dfa_states>>
           /\ IF sym_i = Len(order)
              THEN /\ steps' = Append(steps, info)
                   /\ pc' = "loop"
                   /\ sym_i' = 0
              ELSE /\ sym_i' = sym_i + 1
                   /\ UNCHANGED <<steps, pc>>
    /\ UNCHANGED <<nfa, order, step_count, current_state, dfa,
                   word, nfa_result, dfa_result, closure_in, closure_out>>

\* the iteration order of a frozenset is not specified: any order may occur
Expand ==
    /\ pc = "symbols"
    /\ \E iter \in Orders(current_state) : ExpandWith(iter)

\* dfa_final with a subset test in place of the intersection test
dfa_final_subset(n, states) == {state \in states : state \subseteq n.final}

\* dfa_final with an equality test in place of the intersection test
dfa_final_equal(n, states) == {state \in states : state = n.final}

\* the accepting states of the DFA
dfa_final(n, states) == {state \in states : state \cap n.final # {}}

\* the queue is empty: build and return the DFA
Finalize ==
    /\ pc = "loop"
    /\ queue = <<>>
    /\ dfa' = [states |-> dfa_states, alphabet |-> nfa.alphabet,
               transitions |-> dfa_transitions, start |-> start_dfa(nfa),
               final |-> dfa_final(nfa, dfa_states)]
    /\ pc' = "done"
    /\ UNCHANGED <<nfa, order, queue, processed, dfa_transitions, dfa_states,
                   step_count, current_state, step_info, steps, sym_i,
                   word, nfa_result, dfa_result, closure_in, closure_out>>

\* main(): a word is tested against both automata
TestWord(w) ==
    /\ pc = "done"
    /\ word' = w
    /\ nfa_result' = NFA_accepts(nfa, w)
    /\ dfa_result' = DFA_accepts(dfa, w)
    /\ pc' = "tested"
    /\ UNCHANGED <<nfa, order, queue, processed, dfa_transitions,
                   dfa_states, step_count, current_state, step_info, steps,
                   sym_i, dfa, closure_in, closure_out>>

Test == \E w \in Words(MaxWordLen) : TestWord(w)

TestCanon == \E w \in Words(CanonWordLen) : TestWord(w)

\* a call of NFA.epsilon_closure on a set of states
Closure ==
    /\ pc = "done"
    /\ \E S \in SUBSET nfa.states :
          /\ closure_in' = S
          /\ closure_out' = epsilon_closure(nfa, S)
    /\ pc' = "closed"
    /\ UNCHANGED <<nfa, order, queue, processed, dfa_transitions,
                   dfa_states, step_count, current_state, step_info, steps,
                   sym_i, dfa, word, nfa_result, dfa_result>>

Next == Dequeue \/ Expand \/ Finalize \/ Test \/ Closure

NextCanon == Dequeue \/ Expand \/ Finalize \/ TestCanon \/ Closure

\* the conversion and the tests of the generated NFAs and of the canonical NFA
InitAll == Init \/ InitCanon

NextAll == Next \/ (nfa = CanonicalNFA /\ TestCanon)

\* the conversion alone
NextConv == Dequeue \/ Expand \/ Finalize

Spec == Init /\ [][Next]_vars

\* the conversion alone; the code is sequential, so a step that can be taken
\* is taken
SpecConv == Init /\ [][NextConv]_vars /\ WF_vars(NextConv)

SpecAll == InitAll /\ [][NextAll]_vars

SpecCanon == InitCanon /\ [][NextCanon]_vars

----------------------------------------------------------------------------
(* Properties. *)

\* thompson_algorithm_visual has returned
Returned == pc \in {"done", "tested", "closed"}

\* w is a word over the alphabet
OverAlphabet(w) == \A i \in DOMAIN w : w[i] \in Alphabet

\* C1: language equivalence: for every word over the alphabet NFA.accepts
\* returns the verdict of DFA.accepts on the converted DFA, epsilon-transitions
\* included.
C1_LanguageEquivalence ==
    (pc = "tested" /\ OverAlphabet(word)) => nfa_result = dfa_result[1]

\* C2: the start state of the returned DFA is the epsilon-closure of
\* {NFA.start}, and that closure is the first subset enqueued and marked
\* discovered.
C2_StartIsClosure ==
    LET c0 == epsilon_closure(nfa, {nfa.start})
    IN  /\ (pc = "loop" /\ step_count = 0) => (queue = <<c0>> /\ processed = {c0})
        /\ Returned => (dfa.start = c0 /\ steps[1].current_state = c0)

RECURSIVE RefStates(_, _, _)
\* the reference semantics: the state set after the first k characters of w,
\* with no early exit
RefStates(n, w, k) ==
    IF k = 0 THEN epsilon_closure(n, {n.start})
    ELSE epsilon_closure(n, UNION {delta(n, q, w[k]) : q \in RefStates(n, w, k - 1)})

\* the verdict of the reference semantics
RefAccepts(n, w) == RefStates(n, w, Len(w)) \cap n.final # {}

\* C3: on a word over the alphabet NFA.accepts returns the verdict of the
\* reference semantics, which has no early exit: the early return on an empty
\* current set never changes the verdict.
C3_AcceptsIsReference ==
    (pc = "tested" /\ OverAlphabet(word)) => nfa_result = RefAccepts(nfa, word)

\* C3 witness: a tested word whose run reaches the empty set before its last
\* character, so that the early return is taken
C3_Witness ==
    /\ pc = "tested"
    /\ OverAlphabet(word)
    /\ Len(word) = MaxWordLen
    /\ RefStates(nfa, word, 1) = {}
    /\ nfa.final # {}
    /\ nfa_result = FALSE

\* the word "abab"
Abab == <<"a", "b", "a", "b">>

ThirdFromEndIsA(w) == Len(w) >= 3 /\ w[Len(w) - 2] = "a"

C6_TransitionsClosed ==
    \A C \in DOMAIN dfa_transitions :
        \A x \in DOMAIN dfa_transitions[C] :
            C \in dfa_states /\ dfa_transitions[C][x] \in dfa_states

\* the DFA has a transition from state s on character c
Defined(d, s, c) ==
    c \in d.alphabet /\ s \in DOMAIN d.transitions /\ c \in DOMAIN d.transitions[s]

\* C7: the trace of DFA.accepts starts with DFA.start, each later element is
\* the transition target of its predecessor on the corresponding symbol, it
\* has n+1 elements when no failure occurs, and a failure at 0-based position
\* i gives (False, trace) with a trace of i+1 elements.
C7_Trace ==
    pc = "tested" =>
        LET t == dfa_result[2]
            n == Len(word)
            m == Len(t)
        IN  /\ m >= 1
            /\ m <= n + 1
            /\ t[1] = dfa.start
            /\ \A k \in 1..(m - 1) :
                  /\ Defined(dfa, t[k], word[k])
                  /\ t[k + 1] = dfa.transitions[t[k]][word[k]]
            /\ m < n + 1 => (~Defined(dfa, t[m], word[m]) /\ dfa_result[1] = FALSE)

\* C7 witness: a word of two alphabet symbols whose second symbol has no
\* defined transition, so that the trace stops after two elements
C7_Witness ==
    /\ pc = "tested"
    /\ Len(word) = 2
    /\ OverAlphabet(word)
    /\ Len(dfa_result[2]) = 2
    /\ dfa_result[1] = FALSE

\* C8: a word with a character outside the alphabet is rejected by NFA.accepts
\* and by DFA.accepts, whatever precedes or follows that character.
C8_OutsideAlphabetRejected ==
    (pc = "tested" /\ ~OverAlphabet(word)) =>
        (nfa_result = FALSE /\ dfa_result[1] = FALSE)

\* C8 witness: a character outside the alphabet followed by a word that both
\* automata accept on its own
C8_Witness ==
    /\ pc = "tested"
    /\ Len(word) = 2
    /\ word[1] \notin Alphabet
    /\ NFA_accepts(nfa, Tail(word))
    /\ DFA_accepts(dfa, Tail(word))[1]
    /\ nfa_result = FALSE

\* T is closed under the epsilon-transitions of n
EpsClosed(n, T) == \A p \in T : delta(n, p, Epsilon) \subseteq T

\* C9: epsilon_closure(S) is the smallest superset of S closed under
\* epsilon-transitions: it contains S, is closed, and is contained in every
\* closed superset of S; with no epsilon-transitions it is S.
C9_ClosureIsLeast ==
    pc = "closed" =>
        /\ closure_in \subseteq closure_out
        /\ closure_out \subseteq nfa.states
        /\ EpsClosed(nfa, closure_out)
        /\ \A T \in SUBSET nfa.states :
              (closure_in \subseteq T /\ EpsClosed(nfa, T)) => closure_out \subseteq T
        /\ (\A e \in nfa.transitions : e[2] # Epsilon) => closure_out = closure_in

\* C9 witness: a closure that follows a chain of two epsilon-transitions
C9_Witness ==
    /\ pc = "closed"
    /\ Cardinality(closure_in) = 1
    /\ Cardinality(closure_out) = 3

RECURSIVE ReachFrom(_, _)
\* the DFA states reached from the set R by following the transitions of d
ReachFrom(d, R) ==
    LET R2 == R \cup {d.transitions[C][x] :
                        <<C, x>> \in {y \in (R \cap DOMAIN d.transitions) \X d.alphabet :
                                        y[2] \in DOMAIN d.transitions[y[1]]}}
    IN  IF R2 = R THEN R ELSE ReachFrom(d, R2)

\* C10: every member of DFA.states is reachable from DFA.start by following
\* DFA.transitions along some finite sequence of alphabet symbols.
C10_Reachable == Returned => dfa.states \subseteq ReachFrom(dfa, {dfa.start})

\* C10 witness: a returned DFA with a state two transitions away from the start
C10_Witness ==
    /\ pc = "done"
    /\ Cardinality(dfa.states) >= 3
    /\ \E C \in dfa.states :
          C \notin {dfa.transitions[dfa.start][x] : x \in DOMAIN dfa.transitions[dfa.start]}
          /\ C # dfa.start

RECURSIVE Pow2(_)
\* 2^k
Pow2(k) == IF k = 0 THEN 1 ELSE 2 * Pow2(k - 1)

\* C11: the discovered set and the DFA's state set have at least 1 and at
\* most 2^|NFA.states| members at every point of the exploration and in the
\* returned DFA; for the canonical NFA the count is between 1 and 16.
C11_StateBound ==
    /\ Cardinality(processed) >= 1
    /\ Cardinality(processed) <= Pow2(Cardinality(nfa.states))
    /\ Cardinality(dfa_states) >= 1
    /\ Cardinality(dfa_states) <= Pow2(Cardinality(nfa.states))
    /\ Returned => /\ Cardinality(dfa.states) >= 1
                   /\ Cardinality(dfa.states) <= Pow2(Cardinality(nfa.states))
                   /\ nfa = CanonicalNFA => Cardinality(dfa.states) \in 1..16

\* C11 witness: the DFA returned for the canonical NFA, with more states than
\* the NFA has
C11_Witness ==
    /\ pc = "done"
    /\ nfa = CanonicalNFA
    /\ Cardinality(dfa.states) > Cardinality(nfa.states)

\* C12: the accepting set of the returned DFA is exactly the set of members of
\* DFA.states whose subset shares a state with NFA.final.
C12_FinalIsIntersecting ==
    Returned =>
        /\ dfa.final \subseteq dfa.states
        /\ \A C \in dfa.states : C \in dfa.final <=> (\E q \in C : q \in nfa.final)

\* C12 witness: a returned DFA with an accepting state that is not a subset of
\* NFA.final and a state that is not accepting
C12_Witness ==
    /\ pc = "done"
    /\ \E C \in dfa.final : ~(C \subseteq nfa.final)
    /\ dfa.final # dfa.states

\* C13: epsilon_closure(epsilon_closure(S)) equals epsilon_closure(S),
\* epsilon-cycles included.
C13_ClosureIdempotent ==
    pc = "closed" => epsilon_closure(nfa, closure_out) = closure_out

\* C13 witness: the closure of one state of an epsilon-cycle of two states
C13_Witness ==
    /\ pc = "closed"
    /\ Cardinality(closure_in) = 1
    /\ Cardinality(closure_out) = 2
    /\ \A q \in closure_out : delta(nfa, q, Epsilon) = closure_out \ {q}

\* the subsets dequeued so far, in order, followed by the queue
EnqueuedSoFar ==
    [i \in 1..Len(steps) |-> steps[i].current_state]
        \o (IF pc = "symbols" THEN <<current_state>> ELSE <<>>)
        \o queue

\* no subset occurs twice in a sequence
NoDuplicates(q) == \A i, j \in DOMAIN q : q[i] = q[j] => i = j

\* C14: the subset-construction loop terminates: the discovered set only
\* grows, stays bounded by 2^|NFA.states|, each subset is enqueued at most
\* once, and the queue eventually becomes empty (the function returns).
C14_Terminates ==
    /\ [][processed \subseteq processed']_vars
    /\ [](Cardinality(processed) <= Pow2(Cardinality(nfa.states)))
    /\ [](NoDuplicates(EnqueuedSoFar))
    /\ <>(pc = "done" /\ queue = <<>>)

\* C14 witness: the loop has ended after expanding two subsets, the second of
\* which leads back to a subset discovered before (a cycle of the DFA)
C14_Witness ==
    /\ pc = "done"
    /\ Len(steps) >= 2
    /\ \E x \in Alphabet :
          steps[Len(steps)].transitions[x].to_state \in steps[Len(steps)].processed

\* the members of a sequence
Range(q) == {q[i] : i \in DOMAIN q}

RECURSIVE DiscoveredAt(_, _)
\* the subsets first reached by the first k symbols of a step record, in the
\* order of the symbols: non-empty, not in the record's processed snapshot and
\* not the destination of an earlier symbol of the record
DiscoveredAt(rec, k) ==
    IF k = 0 THEN <<>>
    ELSE LET to == rec.transitions[order[k]].to_state
             before == DiscoveredAt(rec, k - 1)
         IN  IF to # {} /\ to \notin rec.processed /\ to \notin Range(before)
             THEN Append(before, to)
             ELSE before

\* C15: one step record per dequeue: the step numbers are 1,2,...,k, each
\* member of DFA.states is the current_state of exactly one record, the queue
\* snapshot is the work queue after the removal and before the expansion, and
\* the processed snapshot is the discovered set before the expansion.
C15_StepRecords ==
    /\ Len(steps) = (IF pc = "symbols" THEN step_count - 1 ELSE step_count)
    /\ \A i \in DOMAIN steps : steps[i].step = i
    /\ Returned =>
          /\ Len(steps) = Cardinality(dfa.states)
          /\ \A C \in dfa.states :
                Cardinality({i \in DOMAIN steps : steps[i].current_state = C}) = 1
          /\ steps[1].current_state = dfa.start
          /\ steps[1].queue = <<>>
          /\ steps[1].processed = {dfa.start}
          /\ \A i \in DOMAIN steps :
                /\ steps[i].current_state \in steps[i].processed
                /\ Range(steps[i].queue) \subseteq steps[i].processed
                /\ i < Len(steps) =>
                      LET disc == DiscoveredAt(steps[i], Len(order))
                      IN  /\ steps[i].queue \o disc =
                                <<steps[i + 1].current_state>> \o steps[i + 1].queue
                          /\ steps[i + 1].processed =
                                steps[i].processed \cup Range(disc)

\* C15 witness: a returned log of three records, one of them with a non-empty
\* queue snapshot
C15_Witness ==
    /\ pc = "done"
    /\ Len(steps) = 3
    /\ \E i \in DOMAIN steps : steps[i].queue # <<>>

\* C16: in every step record and for every symbol, is_empty is true iff the
\* destination is empty, and is_new is true iff the destination is non-empty
\* and not a member of the record's pre-expansion processed snapshot, also
\* when two symbols of the step lead to the same undiscovered subset.
C16_Flags ==
    \A i \in DOMAIN steps : \A x \in Alphabet :
        LET t == steps[i].transitions[x]
        IN  /\ t.is_empty <=> (t.to_state = {})
            /\ t.is_new <=> (t.to_state # {} /\ t.to_state \notin steps[i].processed)

\* C17: for a fixed enumeration order of the alphabet the run is reproducible:
\* the head and the end of the loop body have one outcome, and the step taken
\* for a symbol is the step taken under every other iteration order of the NFA
\* states of current_state, so that the DFA and the step records are the same.
C17_Reproducible ==
    [][/\ order' = order
       /\ pc = "symbols" => \A iter \in Orders(current_state) : ExpandWith(iter)
       /\ (pc = "loop" /\ queue # <<>>) => Dequeue
       /\ (pc = "loop" /\ queue = <<>>) => Finalize]_vars

\* C17 witness: a returned run that expanded a subset of two or more NFA
\* states whose destinations on a symbol differ
C17_Witness ==
    /\ pc = "done"
    /\ \E i \in DOMAIN steps : \E x \in Alphabet :
          \E p, q \in steps[i].current_state : delta(nfa, p, x) # delta(nfa, q, x)

\* the NFA has no epsilon-transition
NoEpsilon(n) == \A e \in n.transitions : e[2] # Epsilon

\* C18: for an NFA without epsilon-transitions and every word, over the
\* alphabet or not, NFA.accepts returns the verdict of DFA.accepts on the
\* converted DFA; a run that reaches the empty subset is rejected by both.
C18_EquivalentWithoutEpsilon ==
    (pc = "tested" /\ NoEpsilon(nfa)) =>
        /\ nfa_result = dfa_result[1]
        /\ {} \in Range(dfa_result[2]) => (nfa_result = FALSE /\ dfa_result[1] = FALSE)

\* C18 witness: a word of two alphabet symbols whose first symbol leads the
\* DFA into the empty subset, on an NFA that accepts some word
C18_Witness ==
    /\ pc = "tested"
    /\ NoEpsilon(nfa)
    /\ Len(word) = 2
    /\ OverAlphabet(word)
    /\ dfa_result[2] = <<dfa.start, {}>>
    /\ dfa.final # {}
    /\ nfa_result = FALSE

\* C19: in the returned DFA the transition table has an entry for every member
\* of DFA.states and every alphabet symbol, its keys are exactly DFA.states,
\* and the empty subset is never a member of DFA.states nor ever enqueued.
C19_TotalTable ==
    /\ {} \notin dfa_states
    /\ {} \notin processed
    /\ {} \notin Range(queue)
    /\ Returned =>
          /\ DOMAIN dfa.transitions = dfa.states
          /\ \A C \in dfa.states : DOMAIN dfa.transitions[C] = dfa.alphabet
          /\ {} \notin dfa.states
          /\ \A i \in DOMAIN steps :
                {} \notin Range(steps[i].queue) /\ steps[i].current_state # {}

\* C19 witness: a returned DFA of two states with a transition into the empty
\* subset
C19_Witness ==
    /\ pc = "done"
    /\ Cardinality(dfa.states) = 2
    /\ \E C \in dfa.states : \E x \in dfa.alphabet : dfa.transitions[C][x] = {}

RECURSIVE DiscoverySeq(_)
\* the subsets in the order of their discovery by the first k step records
DiscoverySeq(k) ==
    IF k = 0 THEN <<dfa.start>>
    ELSE DiscoverySeq(k - 1) \o DiscoveredAt(steps[k], Len(order))

\* the targets of the transitions of d that leave a state of R
Successors(d, R) ==
    {d.transitions[y[1]][y[2]] :
        y \in {z \in (R \cap DOMAIN d.transitions) \X d.alphabet :
                 z[2] \in DOMAIN d.transitions[z[1]]}}

RECURSIVE DistFrom(_, _, _, _)
\* the length of the shortest symbol sequence from the set seen to C, plus k
DistFrom(d, C, seen, k) ==
    IF C \in seen THEN k
    ELSE LET more == seen \cup Successors(d, seen)
         IN  IF more = seen THEN -1 ELSE DistFrom(d, C, more, k + 1)

\* the length of the shortest symbol sequence from DFA.start to C
Dist(C) == DistFrom(dfa, C, {dfa.start}, 0)

\* C20: the exploration is first in, first out: the current_state values of
\* the step records are the subsets in the order of their discovery, and they
\* are in non-decreasing order of the length of the shortest symbol sequence
\* leading from DFA.start to them.
C20_Fifo ==
    Returned =>
        /\ [i \in 1..Len(steps) |-> steps[i].current_state] = DiscoverySeq(Len(steps))
        /\ \A i, j \in DOMAIN steps :
              i < j => (Dist(steps[i].current_state) >= 0
                        /\ Dist(steps[i].current_state) <= Dist(steps[j].current_state))

\* C20 witness: the run on the canonical NFA, whose eight subsets lie at
\* distances 0 to 3 from the start
C20_Witness ==
    /\ pc = "done"
    /\ nfa = CanonicalNFA
    /\ Len(steps) = 8
    /\ Dist(steps[Len(steps)].current_state) = 3

====
